---- MODULE Spec2Model ----
(***************************************************************************)
(* Sun-visibility window engine of pyrocat/revisit: the azimuth matcher,   *)
(* the day scanner, the window merger and the weather intersector          *)
(* (spots/utils/sun.py), the SunWindowCache table (spots/models.py) and    *)
(* the handlers that read and write it (spots/api/views.py,                *)
(* spots/management/commands/precompute_windows.py, bot/bot.py).           *)
(*                                                                         *)
(* Time is counted in whole minutes from local midnight of the queried     *)
(* day; angles are whole degrees (the code uses floats and datetimes).     *)
(***************************************************************************)
EXTENDS Integers, Sequences, FiniteSets, TLC

VARIABLES
    fn,                 \* the engine function under application: "scan" | "merge"
    pc,                 \* "call" before the function has run, "done" after
    step_minutes,       \* argument step_minutes (scan) / tolerance (merge)
    azimuth_intervals,  \* argument azimuth_intervals of sun_windows_for_day
    min_elevation_deg,  \* argument min_elevation_deg of sun_windows_for_day
    sky,                \* the sun-position provider on the sampled instants: t -> [az, el]
    in_windows,         \* argument windows of merge_adjacent
    raw,                \* local `windows` of sun_windows_for_day when the loop has ended
    ret,                \* the value returned
    allowed_ranges,     \* argument allowed of intersect_with_allowed_hours
    at_angle,           \* argument angle of _wrap_contains
    inside,             \* what _wrap_contains returned: <<>> before the call, <<b>> after
    lookups,            \* calls made so far to _timezone_for (tz) and to _sun_angles (sun)
    now,                \* the clock the database stamps rows with
    spots,              \* table Spot: id -> row
    cache,              \* table SunWindowCache: <<spot id, for_date>> -> <<>> or <<row>>
    workers,            \* the handlers in progress, one per server worker
    shown,              \* what the bot has displayed for the last /suggest
    started,            \* handlers started so far
    updates,            \* spot saves so far
    writer,             \* per cache key, the parameters its last writer computed from
    rows,               \* table SunWindowCache as the database stores it: a set of rows
    calls,              \* the update_or_create call in progress of each writer of the cache
    upserts             \* update_or_create calls made so far

engineVars == <<fn, pc, step_minutes, azimuth_intervals, min_elevation_deg, sky,
                in_windows, raw, ret, allowed_ranges, at_angle, inside, lookups>>

serverVars == <<now, spots, cache, workers, shown, started, updates, writer>>

tableVars == <<rows, calls, upserts>>

vars == <<engineVars, serverVars, tableVars>>

----------------------------------------------------------------------------
(* Program constants *)

MIN_STEP_MINUTES == 5
DayMinutes == 1440
FullTurn == 360
\* half-width of a lighting direction (compute_azimuth_ranges, tolerance=30.0)
AZ_TOLERANCE == 30
\* default radius_km of the suggestions endpoint
DEFAULT_RADIUS_KM == 25
\* the bot lists data["results"][:10]
BOT_MAX_ITEMS == 10

(* Bounds of the model *)

\* the scanner is explored for every step in StepChoices that samples the day
\* at most MaxSamples times
MaxSamples == 6
\* merge_adjacent is explored on every list of at most MaxWindows windows ...
MaxWindows == 3
\* ... whose starts and ends lie in 0..MaxTime
MaxTime == 4
\* ... with every tolerance in 1..MaxTol
MaxTol == 2
\* the clock runs from 0 to MaxClock
MaxClock == 1
\* spots in the table of the server specification
NumSpots == 2
\* dates that can be queried: 1..NumDates
NumDates == 1
\* concurrent handlers
NumWorkers == 2
\* handlers started in one behaviour
MaxRequests == 2
\* spot saves in one behaviour
MaxUpdates == 1
\* spots of the requesting user in the specification of one /suggest
NumCandidates == 11
\* intersect_with_allowed_hours is explored on every list of at most
\* MaxSunWindows windows ...
MaxSunWindows == 2
\* ... and every list of at most MaxAllowed weather ranges
MaxAllowed == 2
\* spots the update_or_create calls are about, and calls made in all
NumKeys == 2
MaxUpserts == 3

----------------------------------------------------------------------------
(* spots/utils/sun.py *)

Max(a, b) == IF a >= b THEN a ELSE b
Min(a, b) == IF a <= b THEN a ELSE b

SunWindow(s, e) == [start |-> s, end |-> e]

WrapContains_NoWrap(interval, angle) ==
    LET s == interval.start % FullTurn
        e == interval.end % FullTurn
        a == angle % FullTurn
    IN  s <= a /\ a <= e

\* _wrap_contains
WrapContains(interval, angle) ==
    LET s == interval.start % FullTurn
        e == interval.end % FullTurn
        a == angle % FullTurn
    IN  (s <= e /\ s <= a /\ a <= e) \/ (s > e /\ (a >= s \/ a <= e))

\* _wrap_contains on Python floats.  A float is counted here in ticks of
\* 1/TicksPerDegree degree.  Binary floating point has a fixed number of
\* significant bits, so the representable numbers lie twice as far apart in
\* each next power-of-two range: every tick below 256 degrees, every second
\* tick in [256, 512), every fourth in [512, 1024), and so on.
TicksPerDegree == 8

\* 360.0 in ticks
TurnTicks == FullTurn * TicksPerDegree

\* distance between neighbouring floats of magnitude m
Spacing(m) ==
    IF m < 256 * TicksPerDegree THEN 1
    ELSE IF m < 512 * TicksPerDegree THEN 2
    ELSE IF m < 1024 * TicksPerDegree THEN 4
    ELSE 8

\* the float nearest to the number n, ties to the even neighbour
RoundFloat(n) ==
    LET m == IF n >= 0 THEN n ELSE -n
        g == Spacing(m)
        lo == (m \div g) * g
        hi == lo + g
        r == IF m - lo < hi - m THEN lo
             ELSE IF m - lo > hi - m THEN hi
             ELSE IF (lo \div g) % 2 = 0 THEN lo ELSE hi
    IN  IF n >= 0 THEN r ELSE -r

\* x + y on floats
FloatAdd(x, y) == RoundFloat(x + y)

\* x % 360.0 on floats: the exact remainder with the sign of x, to which
\* 360.0 is added when it is negative
FloatMod(x) ==
    LET r == IF x >= 0 THEN x % TurnTicks ELSE -((-x) % TurnTicks)
    IN  IF r < 0 THEN FloatAdd(r, TurnTicks) ELSE r

WrapContainsFloat_RawAngle(interval, angle) ==
    LET s == FloatMod(interval.start)
        e == FloatMod(interval.end)
        a == angle
    IN  (s <= e /\ s <= a /\ a <= e) \/ (s > e /\ (a >= s \/ a <= e))

\* _wrap_contains(interval, angle) on floats
WrapContainsFloat(interval, angle) ==
    LET s == FloatMod(interval.start)
        e == FloatMod(interval.end)
        a == FloatMod(angle)
    IN  (s <= e /\ s <= a /\ a <= e) \/ (s > e /\ (a >= s \/ a <= e))

Good_Flipped(ang, t, ivs, minEl) ==
    /\ ang[t].el <= minEl
    /\ \E i \in 1..Len(ivs) : WrapContains(ivs[i], ang[t].az)

\* the predicate `good` of one sample (sun_windows_for_day, lines 55-58)
Good(ang, t, ivs, minEl) ==
    /\ ang[t].el >= minEl
    /\ \E i \in 1..Len(ivs) : WrapContains(ivs[i], ang[t].az)

\* the instants the loop `while t <= end` visits
SampleTimes(step) == {k * step : k \in 0..(DayMinutes \div step)}

ScanStep_CloseAtLastGood(st, ang, ivs, minEl, step, t) ==
    LET good == Good(ang, t, ivs, minEl)
    IN  IF good /\ ~st.cur_on
        THEN [st EXCEPT !.cur_on = TRUE, !.cur_start = <<t>>]
        ELSE IF ~good /\ st.cur_on
        THEN [st EXCEPT !.cur_on = FALSE,
                        !.windows = Append(st.windows, SunWindow(st.cur_start[1], t - step))]
        ELSE st

\* the body of the loop `while t <= end` for the sample at t; st holds the
\* locals cur_on, cur_start (<<>> for None, <<t>> otherwise) and windows
ScanStep(st, ang, ivs, minEl, step, t) ==
    LET good == Good(ang, t, ivs, minEl)
    IN  IF good /\ ~st.cur_on
        THEN [st EXCEPT !.cur_on = TRUE, !.cur_start = <<t>>]
        ELSE IF ~good /\ st.cur_on
        THEN [st EXCEPT !.cur_on = FALSE,
                        !.windows = Append(st.windows, SunWindow(st.cur_start[1], t))]
        ELSE st

RECURSIVE ScanRange(_, _, _, _, _, _, _)
\* the loop body applied to the samples number lo..hi in turn (t = k * step).
\* The range is halved and the locals are evaluated before each descent (no
\* more windows are closed than samples were visited, so the first test never
\* succeeds) to keep the evaluation shallow for a day of 289 samples.
ScanRange(st, ang, ivs, minEl, step, lo, hi) ==
    IF Len(st.windows) > lo \/ lo > hi THEN st
    ELSE IF lo = hi THEN ScanStep(st, ang, ivs, minEl, step, lo * step)
    ELSE ScanRange(ScanRange(st, ang, ivs, minEl, step, lo, (lo + hi) \div 2),
                   ang, ivs, minEl, step, ((lo + hi) \div 2) + 1, hi)

\* lines 51-66 of sun_windows_for_day: the loop over t = start, start + step,
\* ... <= end, then the closing of a run still open
ScanLoop(ang, ivs, minEl, step) ==
    LET st == ScanRange([cur_on |-> FALSE, cur_start |-> <<>>, windows |-> <<>>],
                        ang, ivs, minEl, step, 0, DayMinutes \div step)
    IN  IF st.cur_on /\ st.cur_start # <<>>
        THEN Append(st.windows, SunWindow(st.cur_start[1], DayMinutes))
        ELSE st.windows

RECURSIVE InsertByStart(_, _)
\* one step of the stable sort: w goes after every window whose start is <= its own
InsertByStart(sorted, w) ==
    IF sorted = <<>> THEN <<w>>
    ELSE IF Head(sorted).start <= w.start
         THEN <<Head(sorted)>> \o InsertByStart(Tail(sorted), w)
         ELSE <<w>> \o sorted

RECURSIVE SortByStart(_)
\* windows.sort(key=lambda w: w.start): stable, ascending by start
SortByStart(windows) ==
    IF windows = <<>> THEN <<>>
    ELSE InsertByStart(SortByStart(SubSeq(windows, 1, Len(windows) - 1)),
                       windows[Len(windows)])

RECURSIVE MergeLoop(_, _, _)
\* the loop `for w in windows[1:]` of merge_adjacent
MergeLoop(out, rest, tol) ==
    IF rest = <<>> THEN out
    ELSE LET w == Head(rest)
             last == out[Len(out)]
         IN  IF w.start - last.end <= tol
             THEN MergeLoop([out EXCEPT ![Len(out)].end = Max(last.end, w.end)],
                            Tail(rest), tol)
             ELSE MergeLoop(Append(out, w), Tail(rest), tol)

MergeAdjacent_Unsorted(windows, tol) ==
    IF windows = <<>> THEN <<>>
    ELSE MergeLoop(<<Head(windows)>>, Tail(windows), tol)

RECURSIVE MergeLoop_PrevInput(_, _, _, _)
MergeLoop_PrevInput(out, prev, rest, tol) ==
    IF rest = <<>> THEN out
    ELSE LET w == Head(rest)
             last == out[Len(out)]
         IN  IF w.start - prev.end <= tol
             THEN MergeLoop_PrevInput([out EXCEPT ![Len(out)].end = Max(last.end, w.end)],
                                      w, Tail(rest), tol)
             ELSE MergeLoop_PrevInput(Append(out, w), w, Tail(rest), tol)

MergeAdjacent_PrevInput(windows, tol) ==
    IF windows = <<>> THEN <<>>
    ELSE LET sorted == SortByStart(windows)
         IN  MergeLoop_PrevInput(<<Head(sorted)>>, Head(sorted), Tail(sorted), tol)

MergeAdjacent_Double(windows, tol) ==
    IF windows = <<>> THEN <<>>
    ELSE LET sorted == SortByStart(windows)
         IN  MergeLoop(<<Head(sorted)>>, Tail(sorted), 2 * tol)

MergeAdjacent_Strict(windows, tol) ==
    IF windows = <<>> THEN <<>>
    ELSE LET sorted == SortByStart(windows)
         IN  MergeLoop(<<Head(sorted)>>, Tail(sorted), tol - 1)

\* merge_adjacent
MergeAdjacent(windows, tol) ==
    IF windows = <<>> THEN <<>>
    ELSE LET sorted == SortByStart(windows)
         IN  MergeLoop(<<Head(sorted)>>, Tail(sorted), tol)

\* local `windows` of sun_windows_for_day at line 67, before the merge
RawWindows(ang, ivs, minEl, step) ==
    IF ivs = <<>> THEN <<>>
    ELSE ScanLoop(ang, ivs, minEl, step)

\* sun_windows_for_day
SunWindowsForDay(ang, ivs, minEl, step) ==
    IF ivs = <<>> THEN <<>>
    ELSE MergeAdjacent(RawWindows(ang, ivs, minEl, step), step)

Lookups_Always(ivs, step) ==
    [tz |-> 1, sun |-> IF step >= 1 THEN (DayMinutes \div step) + 1 ELSE 1]

\* the calls sun_windows_for_day makes: none when it returns at line 45, else
\* _timezone_for once (line 46) and _sun_angles once per sample of the loop
\* (line 55); with a step <= 0 the loop has sampled once and goes on
Lookups(ivs, step) ==
    IF ivs = <<>> THEN [tz |-> 0, sun |-> 0]
    ELSE [tz |-> 1, sun |-> IF step >= 1 THEN (DayMinutes \div step) + 1 ELSE 1]

IntersectWithAllowedHours_NoneIsAll(windows, allowed) ==
    LET Pair(k) == <<windows[((k - 1) \div Len(allowed)) + 1],
                     allowed[((k - 1) % Len(allowed)) + 1]>>
        Overlap(k) == SunWindow(Max(Pair(k)[1].start, Pair(k)[2].start),
                                Min(Pair(k)[1].end, Pair(k)[2].end))
        all == [k \in 1..(Len(windows) * Len(allowed)) |-> Overlap(k)]
        out == SelectSeq(all, LAMBDA w : w.start < w.end)
    IN  IF allowed = <<>> THEN MergeAdjacent(windows, MIN_STEP_MINUTES)
        ELSE MergeAdjacent(out, MIN_STEP_MINUTES)

IntersectWithAllowedHours_WideMerge(windows, allowed) ==
    LET Pair(k) == <<windows[((k - 1) \div Len(allowed)) + 1],
                     allowed[((k - 1) % Len(allowed)) + 1]>>
        Overlap(k) == SunWindow(Max(Pair(k)[1].start, Pair(k)[2].start),
                                Min(Pair(k)[1].end, Pair(k)[2].end))
        all == [k \in 1..(Len(windows) * Len(allowed)) |-> Overlap(k)]
        out == SelectSeq(all, LAMBDA w : w.start < w.end)
    IN  MergeAdjacent(out, 2 * MIN_STEP_MINUTES)

IntersectWithAllowedHours_KeepEmpty(windows, allowed) ==
    LET Pair(k) == <<windows[((k - 1) \div Len(allowed)) + 1],
                     allowed[((k - 1) % Len(allowed)) + 1]>>
        Overlap(k) == SunWindow(Max(Pair(k)[1].start, Pair(k)[2].start),
                                Min(Pair(k)[1].end, Pair(k)[2].end))
        all == [k \in 1..(Len(windows) * Len(allowed)) |-> Overlap(k)]
        out == SelectSeq(all, LAMBDA w : w.start <= w.end)
    IN  MergeAdjacent(out, MIN_STEP_MINUTES)

\* intersect_with_allowed_hours
IntersectWithAllowedHours(windows, allowed) ==
    LET Pair(k) == <<windows[((k - 1) \div Len(allowed)) + 1],
                     allowed[((k - 1) % Len(allowed)) + 1]>>
        Overlap(k) == SunWindow(Max(Pair(k)[1].start, Pair(k)[2].start),
                                Min(Pair(k)[1].end, Pair(k)[2].end))
        all == [k \in 1..(Len(windows) * Len(allowed)) |-> Overlap(k)]
        out == SelectSeq(all, LAMBDA w : w.start < w.end)
    IN  MergeAdjacent(out, MIN_STEP_MINUTES)

----------------------------------------------------------------------------
(* spots/models.py.  An optional value is <<>> (None) or <<v>>. *)

Abs(x) == IF x >= 0 THEN x ELSE -x

\* the centre of a named direction (mapping of compute_azimuth_ranges); the
\* directions "front left" and "front right" have none
DirectionCenter(d, base) ==
    CASE d = "front" -> <<base>>
      [] d = "side_left" -> <<(base - 90) % FullTurn>>
      [] d = "side_right" -> <<(base + 90) % FullTurn>>
      [] d = "back" -> <<(base + 180) % FullTurn>>
      [] OTHER -> <<>>

\* centered_range
CenteredRange(center) ==
    [start |-> (center - AZ_TOLERANCE) % FullTurn,
     end |-> (center + AZ_TOLERANCE) % FullTurn]

RECURSIVE RangesOf(_, _)
\* the loop `for d in self.desired_directions`
RangesOf(dirs, base) ==
    IF dirs = <<>> THEN <<>>
    ELSE LET c == DirectionCenter(Head(dirs), base)
         IN  (IF c # <<>> THEN <<CenteredRange(c[1])>> ELSE <<>>)
             \o RangesOf(Tail(dirs), base)

\* Spot.compute_azimuth_ranges
ComputeAzimuthRanges(spot) ==
    IF spot.camera_azimuth = <<>> \/ spot.desired_directions = <<>>
    THEN <<>>
    ELSE RangesOf(spot.desired_directions, spot.camera_azimuth[1] % FullTurn)

\* Spot.save at time t: the ranges are refreshed when camera_azimuth is truthy
\* (not None and not 0.0) and directions are set; updated_at is auto_now
Save(spot, t) ==
    LET refreshed ==
            IF /\ spot.camera_azimuth # <<>>
               /\ spot.camera_azimuth[1] # 0
               /\ spot.desired_directions # <<>>
            THEN [spot EXCEPT !.desired_azimuth_ranges = ComputeAzimuthRanges(spot)]
            ELSE spot
    IN  [refreshed EXCEPT !.updated_at = t]

\* a row of Spot as a query returns it
Row(id) == [id |-> id] @@ spots[id]

----------------------------------------------------------------------------
(* The sun-position provider behind _sun_angles (astral): a deterministic  *)
(* function of the instant and the place.  Here the sun turns 360 degrees   *)
(* in the day, due south at noon, and its elevation falls linearly from    *)
(* noon; the noon elevation depends on the place and the date.             *)

NoonElevation(loc, date) == 40 - 10 * ((loc + date) % 2)

\* _sun_angles at every minute of the day
Ephemeris(loc, date) ==
    [t \in 0..DayMinutes |->
        [az |-> (t \div 4) % FullTurn,
         el |-> NoonElevation(loc, date) - (Abs(t - 720) \div 8)]]

----------------------------------------------------------------------------
(* Datetimes and their ISO strings.  A datetime is [m, aware]: minutes from *)
(* local midnight, and whether it carries a zone.  An ISO string is         *)
(* [text, offset]: the clock reading, and whether it ends with an offset.   *)

\* tz.localize(...) makes the windows of sun_windows_for_day zone-aware
Aware(m) == [m |-> m, aware |-> TRUE]
\* datetime.isoformat()
IsoFormat(dt) == [text |-> dt.m, offset |-> dt.aware]
\* datetime.fromisoformat()
FromIsoFormat(str) == [m |-> str.text, aware |-> str.offset]

\* as_json = [{"start": w.start.isoformat(), "end": w.end.isoformat()} for w in windows]
AsJson(windows) ==
    [i \in 1..Len(windows) |->
        [start |-> IsoFormat(Aware(windows[i].start)),
         end |-> IsoFormat(Aware(windows[i].end))]]

\* what the window computation reads of a row of Spot
Params(row) ==
    [location |-> row.location,
     desired_azimuth_ranges |-> row.desired_azimuth_ranges,
     min_sun_elevation |-> row.min_sun_elevation]

\* what a PATCH can set
CameraChoices == {<<>>, <<0>>, <<180>>}
DirectionChoices == {<<>>, <<"front">>, <<"side_left", "side_right">>}
ElevationChoices == {5, 30}
WeatherChoices == {{}, {"sunny"}}
\* lat/lon of a PATCH: a place, as kilometres along a line
LocationChoices == {<<0>>, <<1>>}

\* the places a spot can be at
Places == {l[1] : l \in LocationChoices} \cup (0..(NumCandidates - 1))

\* the values desired_azimuth_ranges can take
RangeChoices ==
    {<<>>} \cup {ComputeAzimuthRanges([camera_azimuth |-> c, desired_directions |-> d]) :
                    c \in CameraChoices, d \in DirectionChoices}

\* sun_windows_for_day at the default step, on every place, date, intervals
\* and threshold a spot can hold (the function is pure: each value is
\* computed once)
SunWindowsTable ==
    [loc \in Places, date \in 1..NumDates,
     ivs \in RangeChoices, minEl \in ElevationChoices |->
        SunWindowsForDay(Ephemeris(loc, date), ivs, minEl, MIN_STEP_MINUTES)]

\* the call sun_windows_for_day(lat, lon, on_date, azimuth_intervals,
\* min_elevation_deg) of the handlers, on a row with a location
WindowsFor(row, date) ==
    SunWindowsTable[row.location[1], date, row.desired_azimuth_ranges,
                    row.min_sun_elevation]

Upsert_KeepExisting(table, key, as_json, t) ==
    IF table[key] # <<>>
    THEN table
    ELSE [table EXCEPT ![key] = <<[windows |-> as_json, computed_at |-> t]>>]

\* SunWindowCache.objects.update_or_create(spot=, for_date=, defaults={"windows": as_json})
\* at time t: an existing row gets the new windows and keeps computed_at
\* (auto_now_add), a new row is stamped t
Upsert(table, key, as_json, t) ==
    IF table[key] # <<>>
    THEN [table EXCEPT ![key] = <<[table[key][1] EXCEPT !.windows = as_json]>>]
    ELSE [table EXCEPT ![key] = <<[windows |-> as_json, computed_at |-> t]>>]

IsStale_OrEqual(row, entry) ==
    entry = <<>> \/ row.updated_at >= entry[1].computed_at

\* `not cache or spot.updated_at > cache.computed_at` (views.py lines 72 and 128)
IsStale(row, entry) ==
    entry = <<>> \/ row.updated_at > entry[1].computed_at

----------------------------------------------------------------------------
(* The server: spots/api/views.py over the two tables *)

SpotIds == DOMAIN spots
Dates == 1..NumDates
Workers == 1..NumWorkers

REQUEST_USER == "ann"

\* a worker between requests
IdleWorker ==
    [kind |-> "idle", pc |-> "idle", q_date |-> 0, radius_km |-> 0, user_point |-> 0,
     spot |-> <<>>, qs |-> {}, day |-> 0, last_day |-> 0,
     cache |-> <<>>, read |-> <<>>, hit |-> <<>>, scans |-> 0, writes |-> 0,
     wx |-> <<>>, results |-> <<>>, response |-> <<>>]

Response(status, body) == <<[status |-> status, body |-> body]>>

\* a request is taken by the first worker that is free
Accepts(w) ==
    /\ workers[w].kind = "idle"
    /\ \A v \in 1..(w - 1) : workers[v].kind # "idle"

\* the clock advances
Tick ==
    /\ now < MaxClock
    /\ now' = now + 1
    /\ UNCHANGED <<spots, cache, workers, shown, started, updates, writer, engineVars, tableVars>>

\* PATCH /api/spots/{id}/ (SpotSerializer, then Spot.save): one field is set,
\* or none, and the row is saved
UpdateSpot(id) ==
    /\ updates < MaxUpdates
    /\ updates' = updates + 1
    /\ \E patched \in
            {[spots[id] EXCEPT !.camera_azimuth = c] : c \in CameraChoices}
            \cup {[spots[id] EXCEPT !.desired_directions = d] : d \in DirectionChoices}
            \cup {[spots[id] EXCEPT !.min_sun_elevation = e] : e \in ElevationChoices}
            \cup {[spots[id] EXCEPT !.desired_weather = x] : x \in WeatherChoices}
            \cup {[spots[id] EXCEPT !.location = l] : l \in LocationChoices} :
          spots' = [spots EXCEPT ![id] = Save(patched, now)]
    /\ UNCHANGED <<now, cache, workers, shown, started, writer, engineVars, tableVars>>

\* SpotViewSet.windows, lines 61-69: the date is parsed, the spot is read
StartWindows(w, id, d) ==
    /\ Accepts(w)
    /\ started < MaxRequests
    /\ started' = started + 1
    /\ workers' = [workers EXCEPT ![w] =
          IF d \notin Dates
          THEN [IdleWorker EXCEPT !.kind = "windows", !.pc = "done",
                   !.response = Response(400, <<>>)]
          ELSE IF Row(id).location = <<>>
          THEN [IdleWorker EXCEPT !.kind = "windows", !.pc = "done", !.q_date = d,
                   !.spot = <<Row(id)>>, !.response = Response(400, <<>>)]
          ELSE [IdleWorker EXCEPT !.kind = "windows", !.pc = "read_cache", !.q_date = d,
                   !.spot = <<Row(id)>>]]
    /\ UNCHANGED <<now, spots, cache, shown, updates, writer, engineVars, tableVars>>

\* SpotViewSet.windows, lines 71-72 and 88: the cache row is read; a fresh
\* one is returned
WindowsReadCache(w) ==
    LET me == workers[w]
        entry == cache[<<me.spot[1].id, me.q_date>>]
    IN  /\ me.kind = "windows"
        /\ me.pc = "read_cache"
        /\ workers' = [workers EXCEPT ![w] =
              IF IsStale(me.spot[1], entry)
              THEN [me EXCEPT !.pc = "recompute", !.cache = entry, !.read = entry,
                              !.hit = <<FALSE>>]
              ELSE [me EXCEPT !.pc = "done", !.cache = entry, !.read = entry,
                              !.hit = <<TRUE>>,
                              !.response = Response(200, entry[1].windows)]]
        /\ UNCHANGED <<now, spots, cache, shown, started, updates, writer, engineVars, tableVars>>

\* SpotViewSet.windows, lines 73-87: the day is scanned for the row read
\* earlier, the result is stored and returned
WindowsRecompute(w) ==
    LET me == workers[w]
        key == <<me.spot[1].id, me.q_date>>
        as_json == AsJson(WindowsFor(me.spot[1], me.q_date))
    IN  /\ me.kind = "windows"
        /\ me.pc = "recompute"
        /\ cache' = Upsert(cache, key, as_json, now)
        /\ writer' = [writer EXCEPT ![key] = <<Params(me.spot[1])>>]
        /\ workers' = [workers EXCEPT ![w] =
              [me EXCEPT !.pc = "done", !.scans = me.scans + 1, !.writes = me.writes + 1,
                         !.response = Response(200, as_json)]]
        /\ UNCHANGED <<now, spots, shown, started, updates, engineVars, tableVars>>

\* Distance("location", user_point), in metres
Distance(loc, user_point) == Abs(loc - user_point) * 1000

Candidates_NoClip(user_point, radius_km) ==
    {[distance |-> Distance(spots[id].location[1], user_point)] @@ Row(id) :
        id \in {i \in SpotIds :
                  /\ spots[i].user = REQUEST_USER
                  /\ spots[i].location # <<>>}}

\* the queryset of SuggestionsAPI.get (lines 116-121): the user's spots that
\* have a location, annotated with the distance, clipped to the radius when
\* it is > 0
Candidates(user_point, radius_km) ==
    {[distance |-> Distance(spots[id].location[1], user_point)] @@ Row(id) :
        id \in {i \in SpotIds :
                  /\ spots[i].user = REQUEST_USER
                  /\ spots[i].location # <<>>
                  /\ (radius_km > 0 =>
                        Distance(spots[i].location[1], user_point) <= radius_km * 1000)}}

\* what hourly_allowed_ranges can give: a provider failure, no range, or ranges
\* of naive datetimes parsed from the forecast's hourly times
Naive(m) == [m |-> m, aware |-> FALSE]
WeatherOutcomes ==
    { [ok |-> FALSE, ranges |-> <<>>],
      [ok |-> TRUE, ranges |-> <<>>],
      [ok |-> TRUE, ranges |-> <<[start |-> Naive(480), end |-> Naive(720)]>>] }

\* lines 152-163: the cached windows are parsed and intersected with the
\* allowed ranges; max(ws.start, a_start) of an aware and a naive datetime
\* raises TypeError
ViewIntersect(cache_windows, allowed) ==
    LET sun == [i \in 1..Len(cache_windows) |->
                   [start |-> FromIsoFormat(cache_windows[i].start),
                    end |-> FromIsoFormat(cache_windows[i].end)]]
        clash == \E i \in 1..Len(sun) : \E j \in 1..Len(allowed) :
                    sun[i].start.aware # allowed[j].start.aware
        merged == IntersectWithAllowedHours(
                    [i \in 1..Len(sun) |-> SunWindow(sun[i].start.m, sun[i].end.m)],
                    [j \in 1..Len(allowed) |->
                        SunWindow(allowed[j].start.m, allowed[j].end.m)])
        zone(m) == [m |-> m, aware |-> sun[1].start.aware]
    IN  IF clash
        THEN [raised |-> TRUE, windows |-> <<>>]
        ELSE [raised |-> FALSE,
              windows |-> [k \in 1..Len(merged) |->
                              [start |-> IsoFormat(zone(merged[k].start)),
                               end |-> IsoFormat(zone(merged[k].end))]]]

\* lines 144-187 for candidate s with cache row `entry`: the weather filter and
\* the emission of a suggestion
Emit(results, s, entry, wx) ==
    LET inter == ViewIntersect(entry.windows, wx.ranges)
        item(windows_json) ==
            [id |-> s.id, distance_m |-> s.distance, time_windows |-> windows_json]
    IN  IF s.desired_weather # {}
        THEN IF ~wx.ok THEN [raised |-> TRUE, results |-> results]
             ELSE IF wx.ranges = <<>> THEN [raised |-> FALSE, results |-> results]
             ELSE IF inter.raised THEN [raised |-> TRUE, results |-> results]
             ELSE IF inter.windows = <<>> THEN [raised |-> FALSE, results |-> results]
             ELSE [raised |-> FALSE, results |-> Append(results, item(inter.windows))]
        ELSE IF entry.windows = <<>> THEN [raised |-> FALSE, results |-> results]
             ELSE [raised |-> FALSE, results |-> Append(results, item(entry.windows))]

\* SuggestionsAPI.get, lines 101-121: the parameters are parsed (pt is <<>>
\* when lat or lon is missing) and the queryset is built
StartSuggest(w, d, pt, radius) ==
    /\ Accepts(w)
    /\ started < MaxRequests
    /\ started' = started + 1
    /\ workers' = [workers EXCEPT ![w] =
          IF d \notin Dates \/ pt = <<>>
          THEN [IdleWorker EXCEPT !.kind = "suggest", !.pc = "done",
                   !.radius_km = radius, !.response = Response(400, <<>>)]
          ELSE [IdleWorker EXCEPT !.kind = "suggest", !.pc = "loop", !.q_date = d,
                   !.radius_km = radius, !.user_point = pt[1],
                   !.qs = Candidates(pt[1], radius)]]
    /\ UNCHANGED <<now, spots, cache, shown, updates, writer, engineVars, tableVars>>

\* the state of the handler after candidate s has been dealt with; wx is what
\* hourly_allowed_ranges answers, recorded in the local `wx` when it was called
AfterCandidate(me, s, entry, wx) ==
    LET out == Emit(me.results, s, entry[1], wx)
        asked == IF s.desired_weather # {} THEN <<wx>> ELSE <<>>
    IN  IF out.raised
        THEN [me EXCEPT !.pc = "done", !.wx = asked, !.response = Response(500, <<>>)]
        ELSE [me EXCEPT !.pc = "loop", !.wx = asked, !.results = out.results]

NextCandidates_Any(qs) == qs

\* order_by("distance"): the rows of the queryset that can come next
NextCandidates(qs) == {s \in qs : \A o \in qs : s.distance <= o.distance}

\* one iteration of `for s in qs` (ascending distance) up to the cache read of
\* lines 127-128; with a fresh row the iteration runs to its end
SuggestReadCache(w) ==
    LET me == workers[w]
    IN  /\ me.kind = "suggest"
        /\ me.pc = "loop"
        /\ \E s \in NextCandidates(me.qs) :
                 LET entry == cache[<<s.id, me.q_date>>]
                     next == [me EXCEPT !.qs = me.qs \ {s}, !.spot = <<s>>,
                                        !.cache = entry, !.read = entry,
                                        !.scans = 0, !.writes = 0, !.wx = <<>>]
                 IN  IF IsStale(s, entry)
                     THEN workers' = [workers EXCEPT ![w] =
                              [next EXCEPT !.pc = "recompute", !.hit = <<FALSE>>]]
                     ELSE \E wx \in WeatherOutcomes :
                              workers' = [workers EXCEPT ![w] =
                                  AfterCandidate([next EXCEPT !.hit = <<TRUE>>], s, entry, wx)]
        /\ UNCHANGED <<now, spots, cache, shown, started, updates, writer, engineVars, tableVars>>

\* lines 129-142, then the rest of the iteration: the day is scanned for the
\* row of the queryset, the result is stored, and `cache` is the stored row
SuggestRecompute(w) ==
    LET me == workers[w]
        s == me.spot[1]
        key == <<s.id, me.q_date>>
        as_json == AsJson(WindowsFor(s, me.q_date))
        stored == Upsert(cache, key, as_json, now)
        next == [me EXCEPT !.cache = stored[key], !.scans = me.scans + 1,
                           !.writes = me.writes + 1]
    IN  /\ me.kind = "suggest"
        /\ me.pc = "recompute"
        /\ cache' = stored
        /\ writer' = [writer EXCEPT ![key] = <<Params(s)>>]
        /\ \E wx \in WeatherOutcomes :
              workers' = [workers EXCEPT ![w] = AfterCandidate(next, s, stored[key], wx)]
        /\ UNCHANGED <<now, spots, shown, started, updates, engineVars, tableVars>>

\* lines 189-191: the loop has ended
SuggestRespond(w) ==
    LET me == workers[w]
    IN  /\ me.kind = "suggest"
        /\ me.pc = "loop"
        /\ me.qs = {}
        /\ workers' = [workers EXCEPT ![w] =
              [me EXCEPT !.pc = "done", !.response = Response(200, me.results)]]
        /\ UNCHANGED <<now, spots, cache, shown, started, updates, writer, engineVars, tableVars>>

BotLines_All(results) == results

\* bot.py line 217: data["results"][:10]
BotLines(results) == SubSeq(results, 1, Min(Len(results), BOT_MAX_ITEMS))

\* bot.py suggest_with_location, lines 209-223: the answer to the GET the bot
\* made (no radius_km: the default) is shown
BotShow(w) ==
    LET me == workers[w]
        r == me.response[1]
    IN  /\ me.kind = "suggest"
        /\ me.pc = "done"
        /\ me.radius_km = DEFAULT_RADIUS_KM
        /\ shown' = IF r.status >= 300 THEN <<[say |-> "Error", items |-> <<>>, of |-> <<>>]>>
                    ELSE IF Len(r.body) = 0
                    THEN <<[say |-> "No matching spots", items |-> <<>>, of |-> <<>>]>>
                    ELSE <<[say |-> "Suggestions", items |-> BotLines(r.body),
                            of |-> r.body]>>
        /\ workers' = [workers EXCEPT ![w] = IdleWorker]
        /\ UNCHANGED <<now, spots, cache, started, updates, writer, engineVars, tableVars>>

\* precompute_windows Command.handle, lines 15-19: the dates are parsed and
\* the spots that have a location are read
StartPrecompute(w, d0, d1) ==
    /\ Accepts(w)
    /\ started < MaxRequests
    /\ started' = started + 1
    /\ workers' = [workers EXCEPT ![w] =
          IF d1 < d0
          THEN [IdleWorker EXCEPT !.kind = "precompute", !.pc = "done"]
          ELSE [IdleWorker EXCEPT !.kind = "precompute", !.pc = "loop", !.q_date = d0,
                   !.day = d0, !.last_day = d1,
                   !.qs = {Row(id) : id \in {i \in SpotIds : spots[i].location # <<>>}}]]
    /\ UNCHANGED <<now, spots, cache, shown, updates, writer, engineVars, tableVars>>

\* lines 20-31: one spot-day is computed from the row read at the start and
\* stored; the rows come in the order the database gives them
PrecomputeStep(w) ==
    LET me == workers[w]
    IN  /\ me.kind = "precompute"
        /\ me.pc = "loop"
        /\ \E s \in (IF me.spot # <<>> THEN {me.spot[1]} ELSE me.qs) :
              LET key == <<s.id, me.day>>
                  as_json == AsJson(WindowsFor(s, me.day))
              IN  /\ cache' = Upsert(cache, key, as_json, now)
                  /\ writer' = [writer EXCEPT ![key] = <<Params(s)>>]
                  /\ workers' = [workers EXCEPT ![w] =
                        IF me.day < me.last_day
                        THEN [me EXCEPT !.spot = <<s>>, !.qs = me.qs \ {s},
                                        !.day = me.day + 1, !.scans = me.scans + 1,
                                        !.writes = me.writes + 1]
                        ELSE [me EXCEPT !.spot = <<>>, !.qs = me.qs \ {s},
                                        !.day = me.q_date, !.scans = me.scans + 1,
                                        !.writes = me.writes + 1]]
        /\ UNCHANGED <<now, spots, shown, started, updates, engineVars, tableVars>>

\* line 32: every spot-day is done
PrecomputeEnd(w) ==
    LET me == workers[w]
    IN  /\ me.kind = "precompute"
        /\ me.pc = "loop"
        /\ me.spot = <<>>
        /\ me.qs = {}
        /\ workers' = [workers EXCEPT ![w] = [me EXCEPT !.pc = "done"]]
        /\ UNCHANGED <<now, spots, cache, shown, started, updates, writer, engineVars, tableVars>>

\* the response has been sent: the worker takes the next request
Finish(w) ==
    /\ workers[w].pc = "done"
    /\ \/ workers[w].kind \in {"windows", "precompute"}
       \/ workers[w].kind = "suggest" /\ workers[w].radius_km # DEFAULT_RADIUS_KM
    /\ workers' = [workers EXCEPT ![w] = IdleWorker]
    /\ UNCHANGED <<now, spots, cache, shown, started, updates, writer, engineVars, tableVars>>

\* a spot as SpotSerializer.create and Spot.save leave it
NewSpot(user, loc, camera, dirs) ==
    Save([user |-> user, location |-> loc, camera_azimuth |-> camera,
          desired_directions |-> dirs, desired_weather |-> {},
          desired_azimuth_ranges |-> <<>>, min_sun_elevation |-> 5,
          updated_at |-> 0], 0)

\* no call has gone out to the timezone finder or to the sun-position provider
NoLookups == [tz |-> 0, sun |-> 0]

\* the engine's variables while the server runs
EngineIdle ==
    /\ fn = "none"
    /\ pc = "idle"
    /\ step_minutes = MIN_STEP_MINUTES
    /\ azimuth_intervals = <<>>
    /\ min_elevation_deg = 5
    /\ sky = <<>>
    /\ in_windows = <<>>
    /\ raw = <<>>
    /\ ret = <<>>
    /\ allowed_ranges = <<>>
    /\ at_angle = 0
    /\ inside = <<>>
    /\ lookups = NoLookups

\* the server's variables while the engine alone is applied
ServerIdle ==
    /\ now = 0
    /\ spots = <<>>
    /\ cache = <<>>
    /\ workers = [w \in Workers |-> IdleWorker]
    /\ shown = <<>>
    /\ started = 0
    /\ updates = 0
    /\ writer = <<>>

\* the writers of the cache: SpotViewSet.windows, SuggestionsAPI.get and the
\* command precompute_windows
Callers == {"windows", "suggest", "precompute"}

\* a writer that is not inside update_or_create
IdleCall ==
    [pc |-> "idle", spot |-> 0, for_date |-> 0, windows |-> <<>>, pk |-> 0,
     clashed |-> FALSE]

\* the stored rows and the calls while they are not looked at one by one
TableIdle ==
    /\ rows = {}
    /\ calls = [c \in Callers |-> IdleCall]
    /\ upserts = 0

\* the tables after NumSpots spots have been created: the last one may be
\* another user's, or have no location yet
Init ==
    /\ EngineIdle
    /\ TableIdle
    /\ now = 0
    /\ \E u \in {REQUEST_USER, "bob"} : \E l \in {<<>>, <<1>>} :
          spots = [id \in 1..NumSpots |->
                      IF id < NumSpots
                      THEN NewSpot(REQUEST_USER, <<0>>, <<180>>, <<"front">>)
                      ELSE NewSpot(u, l, <<180>>, <<"front">>)]
    /\ cache = [k \in (1..NumSpots) \X Dates |-> <<>>]
    /\ writer = [k \in (1..NumSpots) \X Dates |-> <<>>]
    /\ workers = [w \in Workers |-> IdleWorker]
    /\ shown = <<>>
    /\ started = 0
    /\ updates = 0

RadiusChoices == {0, DEFAULT_RADIUS_KM}

Next ==
    \/ Tick
    \/ \E id \in SpotIds : UpdateSpot(id)
    \/ \E w \in Workers :
          \/ \E id \in SpotIds : \E d \in Dates \cup {0} : StartWindows(w, id, d)
          \/ WindowsReadCache(w)
          \/ WindowsRecompute(w)
          \/ \E d \in Dates \cup {0} : \E pt \in {<<>>, <<0>>} : \E r \in RadiusChoices :
                StartSuggest(w, d, pt, r)
          \/ SuggestReadCache(w)
          \/ SuggestRecompute(w)
          \/ SuggestRespond(w)
          \/ BotShow(w)
          \/ \E d0 \in Dates : \E d1 \in Dates \cup {0} : StartPrecompute(w, d0, d1)
          \/ PrecomputeStep(w)
          \/ PrecomputeEnd(w)
          \/ Finish(w)

Spec == Init /\ [][Next]_vars

----------------------------------------------------------------------------
(* One /suggest of the bot over many spots *)

\* the requesting user has NumCandidates spots, one per kilometre; the first
\* `lit` of them have a lighting direction, except the spot `dark` if any;
\* the others have none (no window)
InitSuggest ==
    /\ EngineIdle
    /\ TableIdle
    /\ now = 0
    /\ \E lit \in 0..NumCandidates : \E dark \in 0..NumCandidates :
          spots = [id \in 1..NumCandidates |->
                      NewSpot(REQUEST_USER, <<id - 1>>, <<180>>,
                              IF id <= lit /\ id # dark THEN <<"front">> ELSE <<>>)]
    /\ cache = [k \in (1..NumCandidates) \X Dates |-> <<>>]
    /\ writer = [k \in (1..NumCandidates) \X Dates |-> <<>>]
    /\ workers = [w \in Workers |-> IdleWorker]
    /\ shown = <<>>
    /\ started = MaxRequests - 1
    /\ updates = 0

\* radius_km of a GET: the bot sends none (the default), another client any number
SuggestRadii == {-1, 0, 2, DEFAULT_RADIUS_KM}

NextSuggest ==
    \/ \E d \in Dates : \E pt \in {<<0>>, <<1>>} : \E r \in SuggestRadii :
          StartSuggest(1, d, pt, r)
    \/ SuggestReadCache(1)
    \/ SuggestRecompute(1)
    \/ SuggestRespond(1)
    \/ BotShow(1)
    \/ Finish(1)

SpecSuggest == InitSuggest /\ [][NextSuggest]_vars

----------------------------------------------------------------------------
(* The engine applied to bounded inputs *)

\* what the sun-position provider may answer for one instant
SkyChoices == {[az |-> 0, el |-> 10], [az |-> 180, el |-> 30], [az |-> 180, el |-> -5]}

IntervalChoices ==
    { <<>>,
      <<[start |-> 0, end |-> 360]>>,
      <<[start |-> 90, end |-> 270]>>,
      <<[start |-> 350, end |-> 10]>> }

ElevChoices == {-90, 5, 20}

StepChoices ==
    {s \in {240, 288, 300, 360, 480, 700, 720, 1440, 1441} :
        (DayMinutes \div s) + 1 <= MaxSamples}

\* scenario A of the specification: hourly samples, good exactly at hours
\* 2, 3, 4 and 8, 9
ScenarioStep == 12 * MIN_STEP_MINUTES
ScenarioSky ==
    [t \in SampleTimes(ScenarioStep) |->
        IF t \in {120, 180, 240, 480, 540}
        THEN [az |-> 180, el |-> 30] ELSE [az |-> 180, el |-> -5]]

WindowChoices == {SunWindow(s, e) : <<s, e>> \in {p \in (0..MaxTime) \X (0..MaxTime) : p[1] <= p[2]}}

WindowLists == UNION {[1..n -> WindowChoices] : n \in 0..MaxWindows}

\* steps sun_windows_for_day accepts without complaint although they sample
\* nothing sensible
BadStepChoices == {-MIN_STEP_MINUTES, 0}

InitEngine ==
    /\ ServerIdle
    /\ TableIdle
    /\ pc = "call"
    /\ raw = <<>>
    /\ ret = <<>>
    /\ allowed_ranges = <<>>
    /\ at_angle = 0
    /\ inside = <<>>
    /\ lookups = NoLookups
    /\ \/ /\ fn = "scan"
          /\ step_minutes \in StepChoices
          /\ sky \in [SampleTimes(step_minutes) -> SkyChoices]
          /\ azimuth_intervals \in IntervalChoices
          /\ min_elevation_deg \in ElevChoices
          /\ in_windows = <<>>
       \/ /\ fn = "scan"
          /\ step_minutes = ScenarioStep
          /\ sky = ScenarioSky
          /\ azimuth_intervals = <<[start |-> 90, end |-> 270]>>
          /\ min_elevation_deg = 5
          /\ in_windows = <<>>
       \/ /\ fn = "scan"
          /\ step_minutes \in BadStepChoices
          /\ sky \in [{0} -> SkyChoices]
          /\ azimuth_intervals \in IntervalChoices
          /\ min_elevation_deg \in ElevChoices
          /\ in_windows = <<>>
       \/ /\ fn = "merge"
          /\ step_minutes \in 1..MaxTol
          /\ in_windows \in WindowLists
          /\ sky = <<>>
          /\ azimuth_intervals = <<>>
          /\ min_elevation_deg = 5

\* sun_windows_for_day(lat, lon, on_date, azimuth_intervals, min_elevation_deg, step_minutes)
CallScan ==
    /\ pc = "call"
    /\ fn = "scan"
    /\ step_minutes >= 1 \/ azimuth_intervals = <<>>
    /\ raw' = RawWindows(sky, azimuth_intervals, min_elevation_deg, step_minutes)
    /\ ret' = SunWindowsForDay(sky, azimuth_intervals, min_elevation_deg, step_minutes)
    /\ lookups' = Lookups(azimuth_intervals, step_minutes)
    /\ pc' = "done"
    /\ UNCHANGED <<fn, step_minutes, azimuth_intervals, min_elevation_deg, sky, in_windows,
                   allowed_ranges, at_angle, inside, serverVars, tableVars>>

\* sun_windows_for_day with step_minutes <= 0 and intervals: no check stops
\* the call, and `while t <= end` with t += step never passes `end`; the
\* call is sampling and does not come back
ScanForever ==
    /\ pc = "call"
    /\ fn = "scan"
    /\ step_minutes <= 0
    /\ azimuth_intervals # <<>>
    /\ lookups' = Lookups(azimuth_intervals, step_minutes)
    /\ pc' = "loop"
    /\ UNCHANGED <<fn, step_minutes, azimuth_intervals, min_elevation_deg, sky, in_windows,
                   raw, ret, allowed_ranges, at_angle, inside, serverVars, tableVars>>

\* merge_adjacent(windows, step_minutes)
CallMerge ==
    /\ pc = "call"
    /\ fn = "merge"
    /\ ret' = MergeAdjacent(in_windows, step_minutes)
    /\ pc' = "done"
    /\ UNCHANGED <<fn, step_minutes, azimuth_intervals, min_elevation_deg, sky,
                   in_windows, raw, allowed_ranges, at_angle, inside, lookups, serverVars,
                   tableVars>>

NextEngine == CallScan \/ ScanForever \/ CallMerge

SpecEngine == InitEngine /\ [][NextEngine]_vars

----------------------------------------------------------------------------
(* merge_adjacent, intersect_with_allowed_hours and _wrap_contains applied  *)
(* to bounded inputs                                                        *)

\* instants for the windows and ranges handed to intersect_with_allowed_hours:
\* some closer together than MIN_STEP_MINUTES, some farther apart
GridTimes == {0, 3, 9, 12}

\* sun windows and weather ranges: start < end
GridWindows == {SunWindow(p[1], p[2]) : p \in {q \in GridTimes \X GridTimes : q[1] < q[2]}}

\* the range that covers the whole day
WholeDay == SunWindow(0, DayMinutes)

SunLists == UNION {[1..n -> GridWindows] : n \in 0..MaxSunWindows}

AllowedLists == UNION {[1..n -> GridWindows \cup {WholeDay}] : n \in 0..MaxAllowed}

\* interval bounds and angles, in and out of [0, 360)
BoundChoices == {-10, 0, 10, 90, 180, 270, 350, 360, 370}
AngleChoices == {-10, 0, 5, 10, 180, 355, 360, 365, 725}

\* values of step_minutes a caller of sun_windows_for_day can pass: the
\* default, a finer and a coarser one
ProducerSteps == {2, MIN_STEP_MINUTES, 8}

\* what sun_windows_for_day can return at step s when the sun is down after
\* the first four steps of the day: windows between sample instants, in
\* ascending order, more than one step apart
ScanOutputs(s) ==
    LET times == {k * s : k \in 0..4}
        wins == {SunWindow(p[1], p[2]) : p \in {q \in times \X times : q[1] < q[2]}}
    IN  {ws \in UNION {[1..n -> wins] : n \in 0..MaxSunWindows} :
            \A i \in 1..(Len(ws) - 1) : ws[i + 1].start - ws[i].end > s}

\* weather ranges over the same hours: their ends are 2 to 16 minutes apart
RangeTimes == {0, 2, 6, 10, 16, 32}

RangeLists ==
    UNION {[1..n -> {SunWindow(p[1], p[2]) :
                        p \in {q \in RangeTimes \X RangeTimes : q[1] < q[2]}}] :
              n \in 0..MaxAllowed}

\* float bounds and angles, in ticks: whole degrees and fractions of a
\* degree, in and out of [0, 360)
FloatChoices ==
    {RoundFloat(d * TicksPerDegree + f) :
        d \in {-10, 0, 10, 350, 360, 370}, f \in {-1, 0, 3}}

InitLaws ==
    /\ ServerIdle
    /\ TableIdle
    /\ pc = "call"
    /\ raw = <<>>
    /\ ret = <<>>
    /\ sky = <<>>
    /\ min_elevation_deg = 5
    /\ inside = <<>>
    /\ lookups = NoLookups
    /\ \/ /\ fn = "merge"
          /\ step_minutes \in 0..MaxTol
          /\ in_windows \in WindowLists
          /\ azimuth_intervals = <<>>
          /\ allowed_ranges = <<>>
          /\ at_angle = 0
       \/ /\ fn = "intersect"
          /\ step_minutes = MIN_STEP_MINUTES
          /\ in_windows \in SunLists
          /\ allowed_ranges \in AllowedLists
          /\ azimuth_intervals = <<>>
          /\ at_angle = 0
       \/ /\ fn = "intersect"
          /\ step_minutes \in ProducerSteps
          /\ in_windows \in ScanOutputs(step_minutes)
          /\ allowed_ranges \in RangeLists
          /\ azimuth_intervals = <<>>
          /\ at_angle = 0
       \/ /\ fn = "contains"
          /\ step_minutes = MIN_STEP_MINUTES
          /\ in_windows = <<>>
          /\ allowed_ranges = <<>>
          /\ \E s \in BoundChoices : \E e \in BoundChoices :
                azimuth_intervals = <<[start |-> s, end |-> e]>>
          /\ at_angle \in AngleChoices
       \/ /\ fn = "contains_float"
          /\ step_minutes = MIN_STEP_MINUTES
          /\ in_windows = <<>>
          /\ allowed_ranges = <<>>
          /\ \E s \in FloatChoices : \E e \in FloatChoices :
                azimuth_intervals = <<[start |-> s, end |-> e]>>
          /\ at_angle \in FloatChoices

\* intersect_with_allowed_hours(windows, allowed)
CallIntersect ==
    /\ pc = "call"
    /\ fn = "intersect"
    /\ ret' = IntersectWithAllowedHours(in_windows, allowed_ranges)
    /\ pc' = "done"
    /\ UNCHANGED <<fn, step_minutes, azimuth_intervals, min_elevation_deg, sky,
                   in_windows, raw, allowed_ranges, at_angle, inside, lookups, serverVars,
                   tableVars>>

\* _wrap_contains(interval, angle)
CallContains ==
    /\ pc = "call"
    /\ fn = "contains"
    /\ inside' = <<WrapContains(azimuth_intervals[1], at_angle)>>
    /\ pc' = "done"
    /\ UNCHANGED <<fn, step_minutes, azimuth_intervals, min_elevation_deg, sky,
                   in_windows, raw, ret, allowed_ranges, at_angle, lookups, serverVars,
                   tableVars>>

\* _wrap_contains(interval, angle) with float arguments
CallContainsFloat ==
    /\ pc = "call"
    /\ fn = "contains_float"
    /\ inside' = <<WrapContainsFloat(azimuth_intervals[1], at_angle)>>
    /\ pc' = "done"
    /\ UNCHANGED <<fn, step_minutes, azimuth_intervals, min_elevation_deg, sky,
                   in_windows, raw, ret, allowed_ranges, at_angle, lookups, serverVars,
                   tableVars>>

NextLaws == CallMerge \/ CallIntersect \/ CallContains \/ CallContainsFloat

SpecLaws == InitLaws /\ [][NextLaws]_vars

----------------------------------------------------------------------------
(* SunWindowCache.objects.update_or_create, statement by statement, as the   *)
(* three writers of the cache call it                                       *)

\* the (spot, for_date) pairs written
TableKeys == (1..NumKeys) \X {1}

\* the values of defaults={"windows": as_json}
JsonChoices == {<<>>, AsJson(<<SunWindow(600, 845)>>)}

\* the rows of a table that have the key k
RowsOf(t, k) == {r \in t : <<r.spot, r.for_date>> = k}

InsertRow_NoUnique(t, row) == [ok |-> TRUE, table |-> t \cup {row}]

\* INSERT into the table: unique_together = [("spot", "for_date")] makes the
\* database refuse a second row with the key (IntegrityError)
InsertRow(t, row) ==
    IF RowsOf(t, <<row.spot, row.for_date>>) # {}
    THEN [ok |-> FALSE, table |-> t]
    ELSE [ok |-> TRUE, table |-> t \cup {row}]

\* update_or_create(spot=, for_date=, defaults={"windows": as_json}) is called
BeginUpsert(w, k, as_json) ==
    /\ calls[w].pc = "idle"
    /\ upserts < MaxUpserts
    /\ upserts' = upserts + 1
    /\ calls' = [calls EXCEPT ![w] =
          [IdleCall EXCEPT !.pc = "get", !.spot = k[1], !.for_date = k[2],
                           !.windows = as_json]]
    /\ UNCHANGED <<rows, engineVars, serverVars>>

\* the row with the key is looked up
UpsertGet(w) ==
    LET me == calls[w]
        found == RowsOf(rows, <<me.spot, me.for_date>>)
    IN  /\ me.pc = "get"
        /\ \/ /\ found = {}
              /\ calls' = [calls EXCEPT ![w] = [me EXCEPT !.pc = "create"]]
           \/ \E r \in found :
                 calls' = [calls EXCEPT ![w] = [me EXCEPT !.pc = "update", !.pk = r.pk]]
        /\ UNCHANGED <<rows, upserts, engineVars, serverVars>>

\* no row was found: one is inserted, stamped with the clock (auto_now_add);
\* when the database refuses it the row that is there is taken instead
UpsertCreate(w) ==
    LET me == calls[w]
        row == [pk |-> Cardinality(rows) + 1, spot |-> me.spot, for_date |-> me.for_date,
                windows |-> me.windows, computed_at |-> now]
        ins == InsertRow(rows, row)
    IN  /\ me.pc = "create"
        /\ rows' = ins.table
        /\ IF ins.ok
           THEN calls' = [calls EXCEPT ![w] = [me EXCEPT !.pc = "done", !.pk = row.pk]]
           ELSE \E r \in RowsOf(rows, <<me.spot, me.for_date>>) :
                   calls' = [calls EXCEPT ![w] =
                       [me EXCEPT !.pc = "update", !.pk = r.pk, !.clashed = TRUE]]
        /\ UNCHANGED <<upserts, engineVars, serverVars>>

\* a row was found: its windows are set and it is saved
UpsertSave(w) ==
    LET me == calls[w]
    IN  /\ me.pc = "update"
        /\ rows' = {IF r.pk = me.pk THEN [r EXCEPT !.windows = me.windows] ELSE r : r \in rows}
        /\ calls' = [calls EXCEPT ![w] = [me EXCEPT !.pc = "done"]]
        /\ UNCHANGED <<upserts, engineVars, serverVars>>

\* update_or_create returns
EndUpsert(w) ==
    /\ calls[w].pc = "done"
    /\ calls' = [calls EXCEPT ![w] = IdleCall]
    /\ UNCHANGED <<rows, upserts, engineVars, serverVars>>

InitTable ==
    /\ EngineIdle
    /\ ServerIdle
    /\ TableIdle

NextTable ==
    \E w \in Callers :
        \/ \E k \in TableKeys : \E j \in JsonChoices : BeginUpsert(w, k, j)
        \/ UpsertGet(w)
        \/ UpsertCreate(w)
        \/ UpsertSave(w)
        \/ EndUpsert(w)

SpecTable == InitTable /\ [][NextTable]_vars

----------------------------------------------------------------------------
(* Properties of the engine *)

ScanDone == pc = "done" /\ fn = "scan" /\ step_minutes >= 1

GoodAt(t) == Good(sky, t, azimuth_intervals, min_elevation_deg)

\* ascending by start, pairwise non-overlapping, consecutive gaps > tol minutes
WellSeparated(ws, tol) ==
    /\ \A i \in 1..(Len(ws) - 1) :
          /\ ws[i].start < ws[i + 1].start
          /\ ws[i + 1].start - ws[i].end > tol
    /\ \A i, j \in 1..Len(ws) : i < j => ws[i].end <= ws[j].start

\* C1: the list returned by sun_windows_for_day, and the list returned by
\* merge_adjacent on any input, is sorted ascending by start, its windows do
\* not overlap, and consecutive windows are more than one step (tolerance)
\* apart.
C1_SortedSeparated ==
    pc = "done" => WellSeparated(ret, step_minutes)

C1_Witness ==
    /\ ScanDone
    /\ Len(ret) >= 2
    /\ Len(raw) > Len(ret)

\* the samples that lie in a window
SamplesIn(w) == {t \in SampleTimes(step_minutes) : w.start <= t /\ t < w.end}

\* C2 as stated: every sample instant inside a returned window is a good one.
C2_WindowsAllGood ==
    ScanDone => \A i \in 1..Len(ret) : \A t \in SamplesIn(ret[i]) : GoodAt(t)

\* a bad sample with a good sample one step before it and one step after it
IsolatedBad(t) ==
    /\ ~GoodAt(t)
    /\ t - step_minutes >= 0
    /\ GoodAt(t - step_minutes)
    /\ t + step_minutes <= DayMinutes
    /\ GoodAt(t + step_minutes)

\* C2 as amended: every sample instant inside a returned window is good, or is
\* a single bad sample between two good ones (two runs one bad sample apart
\* are merged into one window).
C2_WindowsGoodOrBridged ==
    ScanDone =>
        \A i \in 1..Len(ret) : \A t \in SamplesIn(ret[i]) : GoodAt(t) \/ IsolatedBad(t)

C2_Witness ==
    /\ ScanDone
    /\ \E i \in 1..Len(ret) :
          /\ \E t \in SamplesIn(ret[i]) : IsolatedBad(t)
          /\ \E t \in SamplesIn(ret[i]) : GoodAt(t)

\* C3: every returned window has start < end and lies within the day
\* [midnight, midnight + 24h].
C3_PositiveWithinDay ==
    ScanDone =>
        \A i \in 1..Len(ret) :
            /\ ret[i].start < ret[i].end
            /\ 0 <= ret[i].start
            /\ ret[i].end <= DayMinutes

\* a maximal run of good samples, from sample a to sample b
IsRun(a, b) ==
    /\ a <= b
    /\ \A t \in SampleTimes(step_minutes) : (a <= t /\ t <= b) => GoodAt(t)
    /\ (a = 0 \/ ~GoodAt(a - step_minutes))
    /\ (b + step_minutes > DayMinutes \/ ~GoodAt(b + step_minutes))

\* the window of a run: from its first sample to the first bad sample after
\* it, or to the end of the day when no sample follows
RunWindow(a, b) ==
    SunWindow(a, IF b + step_minutes <= DayMinutes THEN b + step_minutes ELSE DayMinutes)

MaximalRuns ==
    {RunWindow(p[1], p[2]) :
        p \in {q \in SampleTimes(step_minutes) \X SampleTimes(step_minutes) :
                  IsRun(q[1], q[2])}}

\* C4: the windows the scan collects before merging are exactly the maximal
\* runs of good samples, in ascending order; in scenario A they are
\* [02:00,05:00) and [08:00,10:00) and the merge leaves them apart.
C4_RawAreMaximalRuns ==
    ScanDone =>
        /\ {raw[i] : i \in 1..Len(raw)} = MaximalRuns
        /\ Len(raw) = Cardinality(MaximalRuns)
        /\ \A i \in 1..(Len(raw) - 1) : raw[i].start < raw[i + 1].start
        /\ (step_minutes = ScenarioStep /\ sky = ScenarioSky) =>
              /\ raw = <<SunWindow(120, 300), SunWindow(480, 600)>>
              /\ ret = raw

C4_Witness ==
    /\ ScanDone
    /\ step_minutes = ScenarioStep
    /\ Len(raw) = 2

\* the minutes of the day a list of windows covers
Covered(ws) == UNION {ws[i].start..(ws[i].end - 1) : i \in 1..Len(ws)}

WindowsAt(e) == SunWindowsForDay(sky, azimuth_intervals, e, step_minutes)

\* C8: for thresholds e1 <= e2 the windows returned for e1 cover every minute
\* the windows returned for e2 cover.
C8_ElevationMonotone ==
    ScanDone =>
        \A e \in ElevChoices :
            /\ e <= min_elevation_deg => Covered(ret) \subseteq Covered(WindowsAt(e))
            /\ e >= min_elevation_deg => Covered(WindowsAt(e)) \subseteq Covered(ret)

C8_Witness ==
    /\ ScanDone
    /\ \E e \in ElevChoices :
          /\ e < min_elevation_deg
          /\ Covered(ret) # {}
          /\ Covered(ret) # Covered(WindowsAt(e))
          /\ Len(ret) < Len(raw)

\* C9: with the full-circle interval {0, 360} and min_elevation_deg = -90 the
\* scan returns the single window [00:00, 24:00).
C9_FullCircleFullDay ==
    (/\ ScanDone
     /\ azimuth_intervals = <<[start |-> 0, end |-> 360]>>
     /\ min_elevation_deg = -90)
    => ret = <<SunWindow(0, DayMinutes)>>

----------------------------------------------------------------------------
(* Properties of the cache and its callers *)

\* the handlers that answer a query for one spot and date
Queries == {w \in Workers : workers[w].kind \in {"windows", "suggest"}}

\* the cache key of the query worker w is at
KeyOf(w) == <<workers[w].spot[1].id, workers[w].q_date>>

\* C5: once a query has recomputed and stored the windows of a key, the
\* stored entry is fresh with respect to the spot row the query computed
\* from: computed_at >= updated_at (so a later query of the unchanged spot
\* is served from the cache).
C5_StoredEntryFresh ==
    \A w \in Queries :
        workers[w].writes >= 1 =>
            /\ cache[KeyOf(w)] # <<>>
            /\ cache[KeyOf(w)][1].computed_at >= workers[w].spot[1].updated_at

C7_CacheRule ==
    \A w \in Queries :
        LET me == workers[w]
        IN  me.hit # <<>> =>
              /\ me.hit[1] = (/\ me.read # <<>>
                              /\ me.read[1].computed_at >= me.spot[1].updated_at)
              /\ me.hit[1] =>
                    /\ me.scans = 0
                    /\ me.writes = 0
                    /\ me.kind = "windows" =>
                          me.response = Response(200, me.read[1].windows)
                    /\ (/\ me.kind = "suggest"
                        /\ me.spot[1].desired_weather = {}
                        /\ me.read[1].windows # <<>>) =>
                          /\ me.results # <<>>
                          /\ me.results[Len(me.results)].id = me.spot[1].id
                          /\ me.results[Len(me.results)].time_windows = me.read[1].windows
              /\ (~me.hit[1] /\ me.pc # "recompute") =>
                    /\ me.scans = 1
                    /\ me.writes = 1

\* a suggestion served from a row stamped at the very instant of the spot's
\* last save, while the windows endpoint recomputes another key
C7_Witness ==
    \E v, w \in Workers :
        /\ workers[w].kind = "suggest"
        /\ workers[w].hit = <<TRUE>>
        /\ workers[w].read[1].computed_at = workers[w].spot[1].updated_at
        /\ workers[w].results # <<>>
        /\ workers[v].kind = "windows"
        /\ workers[v].hit = <<FALSE>>
        /\ workers[v].pc = "done"

\* C10: the list the suggestions endpoint returns never holds more than 10
\* suggestions.
C10_AtMostTen ==
    \A w \in Workers :
        (/\ workers[w].kind = "suggest"
         /\ workers[w].response # <<>>
         /\ workers[w].response[1].status = 200)
        => Len(workers[w].response[1].body) <= 10

----------------------------------------------------------------------------
(* Properties of the suggestions loop *)

\* the handlers of GET /api/suggestions/
Suggesters == {w \in Workers : workers[w].kind = "suggest"}

\* C11: when the weather provider fails for one candidate, the run is not
\* aborted: it ends with the suggestions of the other candidates (status 200).
C11_FailureSkipsOneCandidate ==
    \A w \in Suggesters :
        (workers[w].wx # <<>> /\ ~workers[w].wx[1].ok) =>
            \/ workers[w].response = <<>>
            \/ workers[w].response[1].status = 200

----------------------------------------------------------------------------
(* Properties of the engine's input checks *)

\* C12: a call of sun_windows_for_day with step_minutes <= 0 never starts
\* sampling the day (it is rejected before the first sun-position query).
C12_BadStepNeverSamples ==
    (fn = "scan" /\ step_minutes <= 0) => pc # "loop"

----------------------------------------------------------------------------
(* Laws of the merger, the intersector and the azimuth matcher *)

MergeDone == pc = "done" /\ fn = "merge"
IntersectDone == pc = "done" /\ fn = "intersect"
ContainsDone == pc = "done" /\ fn = "contains"

RECURSIVE SeqOf(_)
\* the members of a finite set, listed in some order
SeqOf(S) ==
    IF S = {} THEN <<>>
    ELSE LET x == CHOOSE y \in S : TRUE
         IN  <<x>> \o SeqOf(S \ {x})

\* the overlaps of positive duration of a sun window with an allowed range
PositiveOverlaps ==
    {o \in {SunWindow(Max(in_windows[i].start, allowed_ranges[j].start),
                      Min(in_windows[i].end, allowed_ranges[j].end)) :
               i \in 1..Len(in_windows), j \in 1..Len(allowed_ranges)} :
        o.start < o.end}

\* C13: intersect_with_allowed_hours returns the merge (tolerance
\* MIN_STEP_MINUTES) of the pairwise overlaps of positive duration; with the
\* single allowed range covering the whole day it returns merge(W).
C13_IntersectionIdentity ==
    IntersectDone =>
        /\ ret = MergeAdjacent(SeqOf(PositiveOverlaps), MIN_STEP_MINUTES)
        /\ allowed_ranges = <<WholeDay>> => ret = MergeAdjacent(in_windows, MIN_STEP_MINUTES)

C13_Witness ==
    /\ IntersectDone
    /\ Len(in_windows) = 2
    /\ Len(allowed_ranges) = 2
    /\ Cardinality(PositiveOverlaps) >= 2
    /\ Cardinality(PositiveOverlaps) < 4
    /\ Len(ret) = 2
    /\ ret # MergeAdjacent(in_windows, MIN_STEP_MINUTES)

\* C14: with s, e, a the interval's start and end and the angle normalized
\* into [0, 360), _wrap_contains answers s <= a <= e when s <= e and
\* (a >= s or a <= e) when s > e; {350, 10} contains 5 and not 180.
C14_WrapContainment ==
    ContainsDone =>
        LET s == azimuth_intervals[1].start % FullTurn
            e == azimuth_intervals[1].end % FullTurn
            a == at_angle % FullTurn
        IN  /\ s <= e => (inside[1] <=> (s <= a /\ a <= e))
            /\ s > e => (inside[1] <=> (a >= s \/ a <= e))
            /\ (azimuth_intervals[1] = [start |-> 350, end |-> 10] /\ at_angle = 5)
                  => inside[1]
            /\ (azimuth_intervals[1] = [start |-> 350, end |-> 10] /\ at_angle = 180)
                  => ~inside[1]

C14_Witness ==
    /\ ContainsDone
    /\ azimuth_intervals[1] = [start |-> 350, end |-> 10]
    /\ at_angle = 5
    /\ inside = <<TRUE>>

\* C15: merging the output of merge_adjacent again, with the same
\* tolerance, changes nothing.
C15_MergeIdempotent ==
    MergeDone => MergeAdjacent(ret, step_minutes) = ret

C15_Witness ==
    /\ MergeDone
    /\ Len(in_windows) = 3
    /\ Len(ret) = 2
    /\ \E i, j \in 1..3 : i < j /\ in_windows[j].start < in_windows[i].end

\* the lists obtained from a list by exchanging two of its elements
Exchanges(ws) ==
    {[ws EXCEPT ![i] = ws[j], ![j] = ws[i]] : i, j \in 1..Len(ws)}

\* C16: merge_adjacent returns the same list for every permutation of its
\* input.  Every list over the window set is an input of some merge call, and
\* a permutation is a chain of exchanges, so it is enough that no exchange of
\* two elements changes the result of any call.
C16_MergeOrderIndependent ==
    MergeDone => \A P \in Exchanges(in_windows) : MergeAdjacent(P, step_minutes) = ret

C16_Witness ==
    /\ MergeDone
    /\ Len(in_windows) = 3
    /\ in_windows[1].start > in_windows[3].start
    /\ in_windows[2].start = in_windows[3].start
    /\ in_windows[2].end < in_windows[3].end
    /\ Len(ret) = 2

----------------------------------------------------------------------------
(* Properties of the suggestions list *)

\* the suggestions a handler has answered with: its body when the status is 200
Answered(w) ==
    IF workers[w].response # <<>> /\ workers[w].response[1].status = 200
    THEN workers[w].response[1].body
    ELSE <<>>

\* the spots of the requesting user that have a location and sun windows on day d
LitSpots(d) ==
    {id \in SpotIds :
        /\ spots[id].user = REQUEST_USER
        /\ spots[id].location # <<>>
        /\ WindowsFor(Row(id), d) # <<>>}

\* the distance in metres from the handler's user_point to spot id
MetresTo(w, id) == Distance(spots[id].location[1], workers[w].user_point)

\* C17: the suggestions collected and returned are in ascending order of
\* distance_m, whichever candidates were skipped.
C17_AscendingDistance ==
    \A w \in Suggesters :
        /\ \A i, j \in 1..Len(workers[w].results) :
              i < j => workers[w].results[i].distance_m <= workers[w].results[j].distance_m
        /\ \A i, j \in 1..Len(Answered(w)) :
              i < j => /\ Answered(w)[i].distance_m <= Answered(w)[j].distance_m
                       /\ Answered(w)[i].distance_m = MetresTo(w, Answered(w)[i].id)

\* three or more suggestions returned, with a spot of no windows skipped
\* between two of them
C17_Witness ==
    \E w \in Suggesters :
        /\ Len(Answered(w)) >= 3
        /\ \E id \in SpotIds :
              /\ id \notin LitSpots(workers[w].q_date)
              /\ MetresTo(w, id) > Answered(w)[1].distance_m
              /\ MetresTo(w, id) < Answered(w)[Len(Answered(w))].distance_m

\* C19: with radius_km > 0 no returned suggestion is farther than the
\* radius; with radius_km <= 0 every spot that has windows is returned,
\* whatever its distance.
C19_RadiusFilter ==
    \A w \in Suggesters :
        (workers[w].response # <<>> /\ workers[w].response[1].status = 200) =>
            /\ workers[w].radius_km > 0 =>
                  \A i \in 1..Len(Answered(w)) :
                      MetresTo(w, Answered(w)[i].id) <= workers[w].radius_km * 1000
            /\ workers[w].radius_km <= 0 =>
                  LitSpots(workers[w].q_date)
                      \subseteq {Answered(w)[i].id : i \in 1..Len(Answered(w))}

\* a spot with windows lies beyond the radius and is left out, others are returned
C19_Witness ==
    \E w \in Suggesters :
        /\ workers[w].radius_km = 2
        /\ Len(Answered(w)) >= 2
        /\ \E id \in LitSpots(workers[w].q_date) :
              /\ MetresTo(w, id) = 3000
              /\ \A i \in 1..Len(Answered(w)) : Answered(w)[i].id # id

\* the last suggestion collected is for the candidate the handler is at
EmittedLast(me) ==
    /\ me.results # <<>>
    /\ me.results[Len(me.results)].id = me.spot[1].id

\* a list of ISO windows / of datetime pairs, as windows in minutes
MinutesOfJson(ws) == [i \in 1..Len(ws) |-> SunWindow(ws[i].start.text, ws[i].end.text)]
MinutesOfRanges(rs) == [i \in 1..Len(rs) |-> SunWindow(rs[i].start.m, rs[i].end.m)]

\* C18: for each candidate: without desired weather the weather provider is
\* not asked and the sun windows are emitted as they are; with desired
\* weather and no allowed range the candidate is not emitted; with allowed
\* ranges the run goes on and what is emitted is the intersection of the sun
\* windows with the ranges.
C18_WeatherHandling ==
    \A w \in Suggesters :
        LET me == workers[w]
            sun == me.cache[1].windows
            both == IntersectWithAllowedHours(MinutesOfJson(sun),
                                              MinutesOfRanges(me.wx[1].ranges))
        IN  (me.hit # <<>> /\ me.pc # "recompute") =>
              /\ me.spot[1].desired_weather = {} =>
                    /\ me.wx = <<>>
                    /\ sun # <<>> =>
                          EmittedLast(me) /\ me.results[Len(me.results)].time_windows = sun
                    /\ sun = <<>> => ~EmittedLast(me)
              /\ (me.spot[1].desired_weather # {} /\ me.wx # <<>> /\ me.wx[1].ok) =>
                    /\ me.wx[1].ranges = <<>> => ~EmittedLast(me)
                    /\ me.wx[1].ranges # <<>> =>
                          /\ me.response = <<>> \/ me.response[1].status = 200
                          /\ both = <<>> => ~EmittedLast(me)
                          /\ both # <<>> =>
                                /\ EmittedLast(me)
                                /\ MinutesOfJson(me.results[Len(me.results)].time_windows)
                                      = both

\* C20: every suggestion returned has windows and belongs to a spot with a
\* location, and every candidate whose final window list was not empty (the
\* handler collected it in `results`) is in the answer.
C20_EmittedIffWindows ==
    \A w \in Suggesters :
        LET me == workers[w]
        IN  /\ \A i \in 1..Len(me.results) :
                  /\ me.results[i].time_windows # <<>>
                  /\ spots[me.results[i].id].location # <<>>
            /\ (me.response # <<>> /\ me.response[1].status # 400) =>
                  me.response[1].body = me.results

----------------------------------------------------------------------------
(* Properties of the cache table *)

\* the key an update_or_create call is about
CallKey(c) == <<c.spot, c.for_date>>

\* no row of another key is touched by a step of a call
OtherKeysKept ==
    \A w \in Callers :
        calls'[w] # calls[w] =>
            \A k \in TableKeys :
                (k # CallKey(calls[w]) /\ k # CallKey(calls'[w])) =>
                    RowsOf(rows', k) = RowsOf(rows, k)

\* C21: however the update_or_create calls of the three writers interleave,
\* the table never holds two rows with the same (spot, for_date), and a step
\* of a call for one key leaves the rows of every other key as they were.
C21_OneEntryPerKey ==
    /\ [](\A k \in TableKeys : Cardinality(RowsOf(rows, k)) <= 1)
    /\ [][OtherKeysKept]_vars

\* two calls for the same key both found no row; the second insert was
\* refused and became an update, while the other key has its row too
C21_Witness ==
    /\ \E w \in Callers : calls[w].pc = "done" /\ calls[w].clashed
    /\ \A k \in TableKeys : RowsOf(rows, k) # {}

----------------------------------------------------------------------------
(* Properties of the empty interval list *)

\* C22: with an empty list of azimuth intervals no sample is good, whatever
\* the sun's position and the elevation threshold, and sun_windows_for_day
\* returns the empty list without a call to the timezone finder or to the
\* sun-position provider.
C22_EmptyIntervalsNoScan ==
    (fn = "scan" /\ azimuth_intervals = <<>>) =>
        /\ \A t \in DOMAIN sky : \A e \in ElevChoices : ~Good(sky, t, azimuth_intervals, e)
        /\ pc # "loop"
        /\ pc = "done" => (ret = <<>> /\ raw = <<>> /\ lookups = NoLookups)

\* the call has returned for an empty list although the sun was above the
\* threshold at some sample
C22_Witness ==
    /\ fn = "scan"
    /\ pc = "done"
    /\ azimuth_intervals = <<>>
    /\ step_minutes >= 1
    /\ \E t \in DOMAIN sky : sky[t].el >= min_elevation_deg

----------------------------------------------------------------------------
(* Further laws of the intersector *)

\* C23: intersect_with_allowed_hours(W, []) is the empty list, for every
\* list W of sun windows.
C23_NoRangesNoWindows ==
    (IntersectDone /\ allowed_ranges = <<>>) => ret = <<>>

C23_Witness ==
    /\ IntersectDone
    /\ allowed_ranges = <<>>
    /\ Len(in_windows) = MaxSunWindows
    /\ ret = <<>>

----------------------------------------------------------------------------
(* Periodicity of the azimuth matcher *)

ContainsFloatDone == pc = "done" /\ fn = "contains_float"

\* x + 360.0 is computed without rounding
ExactTurn(x) == FloatAdd(x, TurnTicks) = x + TurnTicks

\* the arguments with 360.0 added to those of start, end, angle that ds, de,
\* da select
Shifted(ds, de, da) ==
    [start |-> IF ds THEN FloatAdd(azimuth_intervals[1].start, TurnTicks)
               ELSE azimuth_intervals[1].start,
     end |-> IF de THEN FloatAdd(azimuth_intervals[1].end, TurnTicks)
             ELSE azimuth_intervals[1].end,
     angle |-> IF da THEN FloatAdd(at_angle, TurnTicks) ELSE at_angle]

SameAnswer(args) ==
    WrapContainsFloat([start |-> args.start, end |-> args.end], args.angle) = inside[1]

\* C24 as stated: the answer of _wrap_contains does not change when 360 is
\* added to the start, to the end or to the angle, or to several of them.
C24_Periodic ==
    ContainsFloatDone =>
        \A ds, de, da \in BOOLEAN : SameAnswer(Shifted(ds, de, da))

\* C24: the answer of _wrap_contains does not change when 360 is added to
\* the start, to the end or to the angle, or to several of them, as long as
\* each sum is exact (it is, for whole degrees); a sum that had to be rounded
\* is another angle, and the answer can change for an angle on a bound.
C24_PeriodicWhenExact ==
    ContainsFloatDone =>
        \A ds, de, da \in BOOLEAN :
            ( /\ ds => ExactTurn(azimuth_intervals[1].start)
              /\ de => ExactTurn(azimuth_intervals[1].end)
              /\ da => ExactTurn(at_angle) )
            => SameAnswer(Shifted(ds, de, da))

\* an interval that wraps past north holds an angle of a full turn or more,
\* and 360 can be added exactly to all three
C24_Witness ==
    /\ ContainsFloatDone
    /\ inside[1]
    /\ FloatMod(azimuth_intervals[1].start) > FloatMod(azimuth_intervals[1].end)
    /\ at_angle >= TurnTicks
    /\ azimuth_intervals[1].end % TicksPerDegree # 0
    /\ ExactTurn(azimuth_intervals[1].start)
    /\ ExactTurn(azimuth_intervals[1].end)
    /\ ExactTurn(at_angle)

----------------------------------------------------------------------------
(* The tolerance of the re-merge *)

\* the sun windows handed to the intersector come from sun_windows_for_day
\* called with step_minutes
FromScan == step_minutes \in ProducerSteps /\ in_windows \in ScanOutputs(step_minutes)

\* C25: for sun windows computed with step s, intersect_with_allowed_hours
\* returns the overlaps merged with tolerance s: two overlaps are joined iff
\* the gap between them is <= s minutes.
C25_RemergeAtProducerStep ==
    (IntersectDone /\ FromScan) =>
        ret = MergeAdjacent(SeqOf(PositiveOverlaps), step_minutes)

----------------------------------------------------------------------------
(* Coherence of the cache with the spots *)

\* the spot row has not been saved since the query w read it
RowStillCurrent(w) ==
    LET row == workers[w].spot[1]
    IN  /\ Params(spots[row.id]) = Params(row)
        /\ spots[row.id].updated_at = row.updated_at

\* C26: whenever a query finds the cached row fresh (computed_at >= the
\* spot's updated_at) and serves it, the row's windows are those of
\* sun_windows_for_day for the spot's current parameters and the date,
\* whatever saves of spots, other queries and precompute runs went on before.
C26_FreshEntryIsCurrent ==
    \A w \in Queries :
        LET me == workers[w]
        IN  (me.hit = <<TRUE>> /\ RowStillCurrent(w)) =>
              me.read[1].windows = AsJson(WindowsFor(spots[me.spot[1].id], me.q_date))

----------------------------------------------------------------------------
(* Soundness of the intersector *)

\* any two windows of the list are more than MIN_STEP_MINUTES apart
FarApart(ws) ==
    \A i, j \in 1..Len(ws) :
        i # j => \/ ws[j].start - ws[i].end > MIN_STEP_MINUTES
                 \/ ws[i].start - ws[j].end > MIN_STEP_MINUTES

\* C27: when the sun windows are more than 5 minutes apart from each other,
\* and so are the allowed ranges, the minutes covered by the windows that
\* intersect_with_allowed_hours returns are exactly the minutes that lie in a
\* sun window and in an allowed range: none is added, none is lost.
C27_IntersectionExact ==
    (IntersectDone /\ FarApart(in_windows) /\ FarApart(allowed_ranges)) =>
        Covered(ret) = Covered(in_windows) \cap Covered(allowed_ranges)

\* two sun windows and two ranges, each list cutting the other
C27_Witness ==
    /\ IntersectDone
    /\ FarApart(in_windows) /\ FarApart(allowed_ranges)
    /\ Len(in_windows) = 2
    /\ Len(allowed_ranges) = 2
    /\ Len(ret) = 2
    /\ Covered(ret) # Covered(in_windows)
    /\ Covered(ret) # Covered(allowed_ranges)

====
